---- MODULE Spec2Model ----
(***************************************************************************)
(* A model of app.py, the Streamlit quiz application.                      *)
(*                                                                         *)
(* One browser session is modelled.  Every action of the model is one      *)
(* script run of app.py (Streamlit re-executes the script from the top on  *)
(* every user interaction and on every st.rerun()), or a step of the       *)
(* environment (the wall clock).  The input of a run is the button the     *)
(* user clicked, if any, and the radio selection the user made, if any.    *)
(* A widget takes effect only in a run that renders it, as in Streamlit.   *)
(*                                                                         *)
(* Python values are kept as they are in the program: list positions and   *)
(* option indices are 0-based, dicts are functions on a subset of the      *)
(* keys, and None has one encoding per type (see None, NoTime, NoScore,    *)
(* NoShuffle).                                                             *)
(***************************************************************************)
EXTENDS Integers, Sequences, FiniteSets, TLC

-----------------------------------------------------------------------------
(* Bounds of the model *)

\* How many entries of time_options (app.py:513) the user may choose from:
\* 2 = "No timer" and "5 minutes".
MaxTimeOption == 2

\* The resolution of the clock: the wall clock is read in ticks of
\* 1/TicksPerSecond seconds.
TicksPerSecond == 2

-----------------------------------------------------------------------------
(* Python helpers *)

\* None for the flags of the session state (show_answers, timer_expired,
\* reveal_correct_answers), which hold "True", "False" or, after a reset
\* (app.py:637), None.
None == "None"

\* Python truthiness of a flag.
Truthy(v) == v = "True"

\* None for quiz_start_time and time_limit_minutes.
NoTime == -1

\* None for an option index (user_answers.get(i, None)).
NoIndex == -1

\* None for score (a set score is the pair <<correct, total>>).
NoScore == <<>>

\* None for shuffled_questions.  The program never stores an empty list
\* there (app.py:495 generates a shuffle only for a non-empty quiz).
NoShuffle == <<>>

\* The empty dict.
EmptyDict == [k \in {} |-> 0]

\* seq[i] for a 0-based index i.
At(seq, i) == seq[i + 1]

\* x in seq
Contains(seq, x) == \E j \in 1..Len(seq) : seq[j] = x

\* seq.index(x): the 0-based position of the first element equal to x.
\* Defined only when Contains(seq, x); Python raises ValueError otherwise.
Index(seq, x) == (CHOOSE j \in 1..Len(seq) :
                     /\ seq[j] = x
                     /\ \A m \in 1..(j - 1) : seq[m] # x) - 1

\* list(range(n))
Range0(n) == [j \in 1..n |-> j - 1]

\* d.get(k, default)
DictGet(d, k, default) == IF k \in DOMAIN d THEN d[k] ELSE default

\* d[k] = v
DictSet(d, k, v) == [x \in (DOMAIN d) \cup {k} |-> IF x = k THEN v ELSE d[x]]

\* Every outcome of random.shuffle(list(range(n))): the permutations of
\* 0..n-1.
Perms(n) == {p \in [1..n -> 0..(n - 1)] :
                \A a, b \in 1..n : a # b => p[a] # p[b]}

-----------------------------------------------------------------------------
(* Quiz documents *)

Titles == {"A", "B", "C"}

Q1 == [question |-> "q1", options |-> <<"a", "b">>, correct |-> "a"]
Q2 == [question |-> "q2", options |-> <<"c">>, correct |-> "c"]
\* A question whose `correct` is none of its options.
QBad == [question |-> "q3", options |-> <<"x">>, correct |-> "z"]

\* A question that lists one option string twice.
QDup == [question |-> "q4", options |-> <<"d", "d">>, correct |-> "d"]

\* The questions of the quiz documents in the store when the session starts.
InitialQuestions == [t \in Titles |-> CASE t = "A" -> <<Q1, Q2>>
                                        [] t = "B" -> <<QBad, Q1>>
                                        [] t = "C" -> <<>>]

\* The question lists of the model.
QuestionLists == {InitialQuestions[t] : t \in Titles}

\* A document with its facets.  A key that the document lacks, or holds
\* empty, is "" here: the program reads the facets with quiz.get(...) and
\* tests them for truth.  `category` is the legacy name of the department.
FacetDoc(t, qs, dept, cat, lvl, sem, crs, wk, qc) ==
    [quiz_title |-> t, questions |-> qs, department |-> dept, category |-> cat,
     level |-> lvl, semester |-> sem, course |-> crs, week |-> wk,
     quiz_category |-> qc]

\* The quizzes that are taken in the model are quizzes of one course.
Doc(t, qs) == FacetDoc(t, qs, "Bio", "", "100 Level", "First Semester", "CSC 101", "", "")

\* The largest quiz and the longest option list of the model.
MaxQuestions == CHOOSE n \in 0..8 :
                   /\ \E qs \in QuestionLists : Len(qs) = n
                   /\ \A qs \in QuestionLists : Len(qs) <= n
MaxOptions == CHOOSE n \in 0..8 :
                 /\ \E qs \in QuestionLists : \E j \in 1..Len(qs) : Len(qs[j].options) = n
                 /\ \A qs \in QuestionLists : \A j \in 1..Len(qs) : Len(qs[j].options) <= n

-----------------------------------------------------------------------------
(* Time *)

\* time_options (app.py:513-516)
time_options == << "No timer", "5 minutes", "10 minutes", "15 minutes",
                   "20 minutes", "25 minutes", "30 minutes", "40 minutes",
                   "50 minutes", "60 minutes" >>

\* int(selected_time.split()[0]) (app.py:526) for the labels of time_options.
ParseMinutes(selected_time) ==
    CASE selected_time = "5 minutes"  -> 5
      [] selected_time = "10 minutes" -> 10
      [] selected_time = "15 minutes" -> 15
      [] selected_time = "20 minutes" -> 20
      [] selected_time = "25 minutes" -> 25
      [] selected_time = "30 minutes" -> 30
      [] selected_time = "40 minutes" -> 40
      [] selected_time = "50 minutes" -> 50
      [] selected_time = "60 minutes" -> 60

\* The choices of the time-limit selectbox the model follows.
TimeChoices == {time_options[j] : j \in 1..MaxTimeOption}

SecondsPerMinute == 60

\* A time limit in ticks of the clock.
LimitTicks(minutes) == minutes * SecondsPerMinute * TicksPerSecond

\* The deadlines, counted from time 0, of the time limits the model follows.
Deadlines == {LimitTicks(ParseMinutes(c)) : c \in TimeChoices \ {"No timer"}}

\* The last instant of the clock.
MaxNow == CHOOSE d \in {x + TicksPerSecond : x \in Deadlines} :
             \A x \in Deadlines : x + TicksPerSecond <= d

\* The instants at which the clock is read: time 0 and, around each
\* deadline, a second before it, a tick before it, the deadline itself and
\* a second after it.
TimePoints == {0} \cup UNION {{d - TicksPerSecond, d - 1, d, d + TicksPerSecond} :
                                 d \in Deadlines}

\* int(x) for the rational x = num / TicksPerSecond: truncation towards zero.
IntTrunc(num) == IF num >= 0 THEN num \div TicksPerSecond
                 ELSE 0 - ((0 - num) \div TicksPerSecond)

Max(a, b) == IF a >= b THEN a ELSE b

\* RemainingSec without max(0, ...).
RemainingSecUnclamped(start, limit_minutes, t) ==
    IF limit_minutes # NoTime /\ limit_minutes # 0
    THEN IntTrunc(limit_minutes * SecondsPerMinute * TicksPerSecond - (t - start))
    ELSE 999999999

\* remaining_sec (app.py:539-542), for a start time, a time limit and the
\* instant `t` at which datetime.now() is read.
RemainingSec(start, limit_minutes, t) ==
    IF limit_minutes # NoTime /\ limit_minutes # 0
    THEN Max(0, IntTrunc(limit_minutes * SecondsPerMinute * TicksPerSecond - (t - start)))
    ELSE 999999999

\* Expired with < for <=.
ExpiredBelowZero(start, limit_minutes, t) ==
    /\ RemainingSec(start, limit_minutes, t) < 0
    /\ limit_minutes # NoTime /\ limit_minutes # 0

\* The test of app.py:543.
Expired(start, limit_minutes, t) ==
    /\ RemainingSec(start, limit_minutes, t) <= 0
    /\ limit_minutes # NoTime /\ limit_minutes # 0

-----------------------------------------------------------------------------
(* The store (app.py:43-88) *)

\* load_quizzes (app.py:60-69): the session's collection becomes the
\* documents of the store st that have a title, keyed by it.  The unique
\* index on quiz_title (app.py:53) leaves one document for a title.
load_quizzes(st) ==
    LET titled == {k \in DOMAIN st : st[k].quiz_title # ""}
    IN [title \in {st[k].quiz_title : k \in titled} |->
           st[CHOOSE k \in titled : st[k].quiz_title = title]]

\* The documents of the store st whose quiz_title is title.
Matching(st, title) == {k \in DOMAIN st : st[k].quiz_title = title}

\* coll.insert_one(data) in the place of the upsert: the document is added
\* beside the one that has its title.
InsertOne(st, title, data) ==
    DictSet(st, IF Matching(st, title) = {} THEN title ELSE title \o "+",
            [data EXCEPT !.quiz_title = title])

\* coll.replace_one({"quiz_title": title}, data, upsert=True) after
\* data["quiz_title"] = title (app.py:74-82), on the store st: the matching
\* document is replaced, and the document is inserted if none matches.
ReplaceOne(st, title, data) ==
    DictSet(st, IF Matching(st, title) = {} THEN title
                ELSE CHOOSE k \in Matching(st, title) : TRUE,
            [data EXCEPT !.quiz_title = title])

\* coll.delete_one({"quiz_title": title}) (app.py:94), on the store st: one
\* matching document is removed, if there is one.
DeleteOne(st, title) ==
    IF Matching(st, title) = {} THEN st
    ELSE LET gone == CHOOSE k \in Matching(st, title) : TRUE
         IN [k \in DOMAIN st \ {gone} |-> st[k]]

\* result.deleted_count taken to be 1 whatever the store answered.
deleted_count_ignored(st, title) == 1

\* result.deleted_count (app.py:95)
deleted_count(st, title) == IF Matching(st, title) = {} THEN 0 ELSE 1

-----------------------------------------------------------------------------
(* The hierarchy helpers (app.py:154-212) *)

\* The strings of the model in the order of Python's string comparison.
Lexicon == << "100 Level", "200 Level", "300 Level", "400 Level", "Bio",
              "CSC 101", "Chem", "First Semester", "MAT 111", "Past Questions",
              "Phys", "Quiz 1", "Second Semester", "Uncategorized", "Week 1",
              "Week 2" >>

\* The place of each string in that order.
RankOf == [x \in {Lexicon[j] : j \in 1..Len(Lexicon)} |->
              CHOOSE j \in 1..Len(Lexicon) : Lexicon[j] = x]
Rank(x) == RankOf[x]

\* sorted(S) for a set S of strings.
sorted(S) ==
    [j \in 1..Cardinality(S) |->
        CHOOSE x \in S : Cardinality({y \in S : Rank(y) < Rank(x)}) = j - 1]

\* set(seq)
Set(seq) == {seq[j] : j \in 1..Len(seq)}

\* st.session_state.quizzes.values()
Values(qz) == {qz[t] : t \in DOMAIN qz}

\* quiz.get("department") or quiz.get("category"); "" when both are missing.
DeptOf(quiz) == IF quiz.department # "" THEN quiz.department ELSE quiz.category

\* get_all_departments (app.py:154-160)
get_all_departments(qz) == sorted({DeptOf(quiz) : quiz \in Values(qz)} \ {""})

\* get_all_levels with the fallback values always among the levels.
get_all_levels_with_fallback(qz) ==
    sorted(({quiz.level : quiz \in Values(qz)} \ {""})
              \cup {"100 Level", "200 Level", "300 Level", "400 Level"})

\* get_all_levels (app.py:163-168)
get_all_levels(qz) ==
    LET levels == {quiz.level : quiz \in Values(qz)} \ {""}
    IN IF levels # {} THEN sorted(levels)
       ELSE << "100 Level", "200 Level", "300 Level", "400 Level" >>

\* get_all_semesters (app.py:171-176)
get_all_semesters(qz) ==
    LET sems == {quiz.semester : quiz \in Values(qz)} \ {""}
    IN IF sems # {} THEN sorted(sems)
       ELSE << "First Semester", "Second Semester" >>

\* get_courses_for without the test of the semester.
get_courses_for_any_semester(qz, selected_depts, selected_levels, selected_semesters) ==
    sorted({quiz.course : quiz \in
               {q \in Values(qz) :
                   /\ selected_depts = {} \/ DeptOf(q) \in selected_depts
                   /\ selected_levels = {} \/ q.level \in selected_levels
                   /\ q.course # ""}})

\* get_courses_for (app.py:179-188)
get_courses_for(qz, selected_depts, selected_levels, selected_semesters) ==
    sorted({quiz.course : quiz \in
               {q \in Values(qz) :
                   /\ selected_depts = {} \/ DeptOf(q) \in selected_depts
                   /\ selected_levels = {} \/ q.level \in selected_levels
                   /\ selected_semesters = {} \/ q.semester \in selected_semesters
                   /\ q.course # ""}})

\* get_weeks_for (app.py:191-199)
get_weeks_for(qz, selected_levels, selected_semesters, selected_courses) ==
    sorted({quiz.week : quiz \in
               {q \in Values(qz) :
                   /\ selected_levels = {} \/ q.level \in selected_levels
                   /\ selected_semesters = {} \/ q.semester \in selected_semesters
                   /\ selected_courses = {} \/ q.course \in selected_courses
                   /\ q.week # ""}})

\* get_categories_for (app.py:202-212)
get_categories_for(qz, selected_levels, selected_semesters, selected_courses, selected_weeks) ==
    sorted({quiz.quiz_category : quiz \in
               {q \in Values(qz) :
                   /\ ~(selected_levels # {} /\ q.level \notin selected_levels)
                   /\ ~(selected_semesters # {} /\ q.semester \notin selected_semesters)
                   /\ ~(selected_courses # {} /\ q.course \notin selected_courses)
                   /\ ~(selected_weeks # {} /\ q.week \notin selected_weeks)
                   /\ q.quiz_category # ""}})

-----------------------------------------------------------------------------
(* The sidebar filters and the quiz list (app.py:666-776) *)

\* The six multiselects, from upstream to downstream.
FacetOrder == << "dept", "level", "semester", "course", "week", "category" >>

\* The conditions under which the controls are rendered (app.py:678-726) and
\* the quiz list is produced (app.py:737-745).
ShowLevel(d) == d # {}
ShowSemester(d, l) == d # {} /\ l # {}
\* ShowCourse without the test of the semesters.
ShowCourseWithoutSemester(d, l, s) == d # {} /\ l # {}
ShowCourse(d, l, s) == d # {} /\ l # {} /\ s # {}
ShowWeek(d, l, s, c) == d # {} /\ l # {} /\ s # {} /\ c # {}
ShowCategory(d, l, s, c, w) == d # {} /\ l # {} /\ s # {} /\ c # {} /\ w # {}
ShowQuizList(d, l, s, c) == d # {} /\ l # {} /\ s # {} /\ c # {}

\* A control of the sidebar as a run leaves it: whether it was rendered, and
\* the options it offered.
Control(shown, options) == [shown |-> shown, options |-> IF shown THEN options ELSE <<>>]

\* quiz.get("department") or quiz.get("category", "Uncategorized") (app.py:750)
DeptForList(quiz) == IF DeptOf(quiz) # "" THEN DeptOf(quiz) ELSE "Uncategorized"

\* The titles in `filtered` (app.py:746-771).
filtered(qz, selected_depts, selected_levels, selected_semesters, selected_courses, selected_weeks, selected_categories) ==
    {title \in DOMAIN qz :
        LET quiz == qz[title] IN
        /\ ~(selected_depts # {} /\ DeptForList(quiz) \notin selected_depts)
        /\ ~(selected_levels # {} /\ quiz.level \notin selected_levels)
        /\ ~(selected_semesters # {} /\ quiz.semester \notin selected_semesters)
        /\ ~(selected_courses # {} /\ quiz.course \notin selected_courses)
        /\ ~(selected_weeks # {} /\ quiz.week \notin selected_weeks)
        /\ ~(selected_categories # {} /\ quiz.quiz_category \notin selected_categories)}

\* The sidebar of one run (app.py:666-776) on the quiz collection qz, for the
\* values w that the multiselects return when they are rendered: the
\* selections the run stores in the session state and what it offers.
Sidebar(qz, w) ==
    LET all_depts == IF get_all_departments(qz) # <<>> THEN get_all_departments(qz)
                     ELSE << "Uncategorized" >>
        selected_depts == w.dept
        selected_levels == IF ShowLevel(selected_depts) THEN w.level ELSE {}
        selected_semesters ==
            IF ShowSemester(selected_depts, selected_levels) THEN w.semester ELSE {}
        selected_courses ==
            IF ShowCourse(selected_depts, selected_levels, selected_semesters)
            THEN w.course ELSE {}
        selected_weeks ==
            IF ShowWeek(selected_depts, selected_levels, selected_semesters,
                        selected_courses)
            THEN w.week ELSE {}
        selected_categories ==
            IF ShowCategory(selected_depts, selected_levels, selected_semesters,
                            selected_courses, selected_weeks)
            THEN w.category ELSE {}
        listed == ShowQuizList(selected_depts, selected_levels, selected_semesters,
                               selected_courses)
    IN [selected_departments |-> selected_depts,
        selected_levels |-> selected_levels,
        selected_semesters |-> selected_semesters,
        selected_courses |-> selected_courses,
        selected_weeks |-> selected_weeks,
        selected_categories |-> selected_categories,
        offered |->
          [dept |-> Control(TRUE, sorted(Set(all_depts))),
           level |-> Control(ShowLevel(selected_depts), get_all_levels(qz)),
           semester |-> Control(ShowSemester(selected_depts, selected_levels),
                                get_all_semesters(qz)),
           course |-> Control(ShowCourse(selected_depts, selected_levels,
                                         selected_semesters),
                              get_courses_for(qz, selected_depts, selected_levels,
                                              selected_semesters)),
           week |-> Control(ShowWeek(selected_depts, selected_levels,
                                     selected_semesters, selected_courses),
                            get_weeks_for(qz, selected_levels, selected_semesters,
                                          selected_courses)),
           category |-> Control(ShowCategory(selected_depts, selected_levels,
                                             selected_semesters, selected_courses,
                                             selected_weeks),
                                get_categories_for(qz, selected_levels,
                                                   selected_semesters,
                                                   selected_courses, selected_weeks)),
           quiz_list |-> [shown |-> listed,
                          titles |-> IF listed
                                     THEN filtered(qz, selected_depts, selected_levels,
                                                   selected_semesters, selected_courses,
                                                   selected_weeks, selected_categories)
                                     ELSE {}]]]

\* No multiselect holds a value.
NoFilters == [f \in Set(FacetOrder) |-> {}]

-----------------------------------------------------------------------------
(* The session state (app.py:110-131) and the environment *)

VARIABLES
    store,                  \* the MongoDB collection: quiz_title -> document
    quizzes,                \* st.session_state.quizzes: title -> document
    selected_quiz,          \* a title, or None
    user_answers,           \* presentation position -> presentation option index
    show_answers,
    score,                  \* NoScore or <<correct, total>>
    quiz_start_time,        \* NoTime or the instant of Start
    time_limit_minutes,     \* NoTime or the minutes of the limit
    timer_expired,
    reveal_correct_answers,
    shuffled_questions,     \* NoShuffle or the questions in presentation order
    option_shuffles,        \* canonical question index -> permutation of option indices
    now,                    \* the wall clock, in ticks
    fault,                  \* the last script run ended in an uncaught exception
    chosen_display,         \* position -> what the user chose there, as displayed
                            \* by the run that applied the choice
    selected_departments,   \* the six facet selections of the sidebar, as sets
    selected_levels,
    selected_semesters,
    selected_courses,
    selected_weeks,
    selected_categories,
    offered,                \* what the sidebar of the last run offered
    edit_quiz_title,        \* the title of the quiz in the edit form, or None
    edit_quiz_data,         \* the document the edit form was opened with, or None
    report                  \* what the admin's last action reported on the page

vars == << store, quizzes, selected_quiz, user_answers, show_answers, score,
           quiz_start_time, time_limit_minutes, timer_expired,
           reveal_correct_answers, shuffled_questions, option_shuffles,
           now, fault, chosen_display, selected_departments, selected_levels,
           selected_semesters, selected_courses, selected_weeks,
           selected_categories, offered, edit_quiz_title, edit_quiz_data,
           report >>

edit_vars == << edit_quiz_title, edit_quiz_data >>
admin_vars == << edit_quiz_title, edit_quiz_data, report >>

\* The admin's forms report nothing in this run.
Quiet == report' = {}

\* No quiz is being edited and nothing was reported (app.py:129-130).
NoEdit == edit_quiz_title = None /\ edit_quiz_data = None /\ report = {}

sidebar_vars == << selected_departments, selected_levels, selected_semesters,
                   selected_courses, selected_weeks, selected_categories, offered >>

\* The values the multiselects hold.
Widgets ==
    [dept |-> selected_departments, level |-> selected_levels,
     semester |-> selected_semesters, course |-> selected_courses,
     week |-> selected_weeks, category |-> selected_categories]

\* The run's sidebar leaves the selections and the offer of side.
StoreSidebar(side) ==
    /\ selected_departments' = side.selected_departments
    /\ selected_levels' = side.selected_levels
    /\ selected_semesters' = side.selected_semesters
    /\ selected_courses' = side.selected_courses
    /\ selected_weeks' = side.selected_weeks
    /\ selected_categories' = side.selected_categories
    /\ offered' = side.offered

\* The sidebar of a run in which the user touched no multiselect: the
\* multiselects return the values they hold.
SidebarRerun == StoreSidebar(Sidebar(quizzes, Widgets))

\* The quizzes whose buttons the user can click: those the last run listed
\* and this run lists again (app.py:776-784).
Clickable == offered.quiz_list.titles \cap offered'.quiz_list.titles

\* The sidebar after a run in which the multiselects hold w.
SidebarIs(w) ==
    LET side == Sidebar(quizzes, w) IN
    /\ selected_departments = side.selected_departments
    /\ selected_levels = side.selected_levels
    /\ selected_semesters = side.selected_semesters
    /\ selected_courses = side.selected_courses
    /\ selected_weeks = side.selected_weeks
    /\ selected_categories = side.selected_categories
    /\ offered = side.offered

\* The filters with which the user has found the quizzes of the course
\* CSC 101.
CourseFilters ==
    [dept |-> {"Bio"}, level |-> {"100 Level"}, semester |-> {"First Semester"},
     course |-> {"CSC 101"}, week |-> {}, category |-> {}]

attempt_vars == << user_answers, show_answers, score, quiz_start_time,
                   time_limit_minutes, timer_expired, reveal_correct_answers,
                   shuffled_questions, option_shuffles >>

Init ==
    /\ store = [t \in Titles |-> Doc(t, InitialQuestions[t])]
    /\ quizzes = load_quizzes(store)
    /\ selected_quiz = None
    /\ user_answers = EmptyDict
    /\ show_answers = "False"
    /\ score = NoScore
    /\ quiz_start_time = NoTime
    /\ time_limit_minutes = NoTime
    /\ timer_expired = "False"
    /\ reveal_correct_answers = "False"
    /\ shuffled_questions = NoShuffle
    /\ option_shuffles = EmptyDict
    /\ now = 0
    /\ fault = FALSE
    /\ chosen_display = EmptyDict
    /\ NoEdit
    /\ SidebarIs(CourseFilters)

-----------------------------------------------------------------------------
(* The inputs of a script run *)

\* The buttons of take_quiz_section.
Buttons == {"Start Quiz", "Submit Quiz", "Show correct answers & explanations",
            "Hide correct answers", "Restart this quiz"}
NoButton == "none"

\* A radio selection: the option at 0-based index idx of the radio at
\* presentation position pos.
AnsInputs == {[pos |-> i, idx |-> k] :
                 i \in 0..(MaxQuestions - 1), k \in 0..(MaxOptions - 1)}
NoAns == [pos |-> NoIndex, idx |-> NoIndex]

-----------------------------------------------------------------------------
(* take_quiz_section: the shuffle (app.py:482-507) *)

\* quiz.get("questions", []) of the selected quiz (app.py:482-486), for the
\* quiz collection qz of the session.
original_questions(qz) == qz[selected_quiz].questions

\* The test of app.py:491 and app.py:511.
Configuring == quiz_start_time = NoTime /\ ~Truthy(show_answers)

\* The shuffle a run starts from: app.py:491-493 discards it while configuring.
KeptShuffle ==
    IF Configuring
    THEN [shuffled_questions |-> NoShuffle, option_shuffles |-> EmptyDict]
    ELSE [shuffled_questions |-> shuffled_questions, option_shuffles |-> option_shuffles]

\* The test of app.py:495.
Regenerates(orig) == KeptShuffle.shuffled_questions = NoShuffle /\ orig # <<>>

\* Every outcome of app.py:500-505: a permutation of the option indices for
\* each canonical question that has options.
OptionShuffleOutcomes(orig) ==
    LET withOpts == {i \in 0..(Len(orig) - 1) : At(orig, i).options # <<>>}
        allPerms == UNION {Perms(n) : n \in 1..MaxOptions}
    IN {f \in [withOpts -> allPerms] :
           \A i \in withOpts : f[i] \in Perms(Len(At(orig, i).options))}

\* Every outcome of app.py:496-505.
ShuffleOutcomes(orig) ==
    {[shuffled_questions |-> [j \in 1..Len(orig) |-> At(orig, shuffled_idx[j])],
      option_shuffles |-> opt_idx] :
        shuffled_idx \in Perms(Len(orig)), opt_idx \in OptionShuffleOutcomes(orig)}

\* The shuffles a run may end app.py:491-505 with.
ShuffleDraws(orig) == IF Regenerates(orig) THEN ShuffleOutcomes(orig) ELSE {KeptShuffle}

\* shuffled_questions of app.py:507, for the session's shuffle sh.
Presented(orig, sh) ==
    IF sh.shuffled_questions = NoShuffle THEN orig ELSE sh.shuffled_questions

-----------------------------------------------------------------------------
(* take_quiz_section: the questions (app.py:556-593) *)

\* The run ends in an uncaught exception: what it wrote so far stays.
Raise(acc) == [acc EXCEPT !.fault = TRUE]

\* opts_shuffled (app.py:566)
OptsShuffled(opts_orig, shuffle_map) ==
    [j \in 1..Len(shuffle_map) |-> At(opts_orig, shuffle_map[j])]

\* The body of the loop of app.py:556 at position i.  env holds the values the
\* loop reads: orig (original_questions), shuffled (shuffled_questions of
\* app.py:507), option_shuffles, answering (the test of app.py:569) and ans
\* (the user's radio selection).  acc holds user_answers (ua), the record of
\* what the user chose (cd) and fault.
\* st.radio raises when its index is not a position of its options, returns
\* the option the user selected if the user selected one of its options, and
\* the option at `index` otherwise.
QuestionStep(i, env, acc) ==
    LET q == At(env.shuffled, i) IN
    IF ~Contains(env.orig, q) THEN Raise(acc)
    ELSE
    LET opts_orig == q.options
        correct == q.correct
        orig_idx == Index(env.orig, q)
    IN
    IF opts_orig = <<>> \/ ~Contains(opts_orig, correct) THEN acc
    ELSE
    LET shuffle_map == DictGet(env.option_shuffles, orig_idx, Range0(Len(opts_orig))) IN
    IF \E j \in 1..Len(shuffle_map) : shuffle_map[j] >= Len(opts_orig) THEN Raise(acc)
    ELSE
    LET opts_shuffled == OptsShuffled(opts_orig, shuffle_map)
        user_idx == DictGet(acc.ua, i, NoIndex)
    IN
    IF env.answering
    THEN IF user_idx # NoIndex /\ user_idx >= Len(opts_shuffled) THEN Raise(acc)
         ELSE LET picked == env.ans.pos = i /\ env.ans.idx < Len(opts_shuffled)
                  choice_idx == IF picked THEN env.ans.idx ELSE user_idx
              IN IF choice_idx = NoIndex THEN acc
                 ELSE LET choice == At(opts_shuffled, choice_idx) IN
                      [acc EXCEPT
                         !.ua = DictSet(@, i, Index(opts_shuffled, choice)),
                         !.cd = IF picked
                                THEN DictSet(@, i, [question |-> q, option |-> choice])
                                ELSE @]
    ELSE IF ~Contains(shuffle_map, Index(opts_orig, correct)) THEN Raise(acc)
         ELSE IF user_idx # NoIndex /\ user_idx >= Len(opts_shuffled) THEN Raise(acc)
         ELSE acc

\* The loop of app.py:556-593 from position i on.
RECURSIVE QuestionLoop(_, _, _)
QuestionLoop(i, env, acc) ==
    IF i >= Len(env.shuffled) \/ acc.fault THEN acc
    ELSE QuestionLoop(i + 1, env, QuestionStep(i, env, acc))

-----------------------------------------------------------------------------
(* take_quiz_section: Submit (app.py:598-610) *)

\* SubmitStep with the chosen index read as a canonical index, without the
\* option permutation.
SubmitStepUnmapped(i, env, ua, acc) ==
    LET q == At(env.shuffled, i) IN
    IF ~Contains(env.orig, q) THEN Raise(acc)
    ELSE
    LET u_idx == DictGet(ua, i, NoIndex) IN
    IF u_idx = NoIndex THEN acc
    ELSE IF u_idx >= Len(q.options) THEN Raise(acc)
    ELSE IF At(q.options, u_idx) = q.correct
         THEN [acc EXCEPT !.correct_count = @ + 1]
         ELSE acc

\* The body of the loop of app.py:600 at position i; acc holds correct_count
\* and fault.
SubmitStep(i, env, ua, acc) ==
    LET q == At(env.shuffled, i) IN
    IF ~Contains(env.orig, q) THEN Raise(acc)
    ELSE
    LET orig_i == Index(env.orig, q)
        u_idx == DictGet(ua, i, NoIndex)
    IN
    IF u_idx = NoIndex THEN acc
    ELSE
    LET map_ == DictGet(env.option_shuffles, orig_i, <<>>) IN
    IF u_idx >= Len(map_) THEN Raise(acc)
    ELSE
    LET orig_choice_idx == At(map_, u_idx) IN
    IF orig_choice_idx >= Len(q.options) THEN Raise(acc)
    ELSE IF At(q.options, orig_choice_idx) = q.correct
         THEN [acc EXCEPT !.correct_count = @ + 1]
         ELSE acc

\* The loop of app.py:600-607 from position i on.
RECURSIVE SubmitLoop(_, _, _, _)
SubmitLoop(i, env, ua, acc) ==
    IF i >= Len(env.shuffled) \/ acc.fault THEN acc
    ELSE SubmitLoop(i + 1, env, ua, SubmitStep(i, env, ua, acc))

-----------------------------------------------------------------------------
(* take_quiz_section as a whole (app.py:481-642) *)

\* The keys of the session state a run of take_quiz_section may write.
Attempt ==
    [user_answers |-> user_answers, show_answers |-> show_answers, score |-> score,
     quiz_start_time |-> quiz_start_time, time_limit_minutes |-> time_limit_minutes,
     timer_expired |-> timer_expired, reveal_correct_answers |-> reveal_correct_answers,
     shuffled_questions |-> shuffled_questions, option_shuffles |-> option_shuffles,
     chosen_display |-> chosen_display, fault |-> FALSE]

\* ResetAttempt leaving user_answers as it is.
ResetAttemptKeepingAnswers(a) ==
    [a EXCEPT !.show_answers = None, !.score = NoScore,
              !.quiz_start_time = NoTime, !.time_limit_minutes = NoTime,
              !.timer_expired = None, !.reveal_correct_answers = None,
              !.shuffled_questions = NoShuffle, !.option_shuffles = EmptyDict,
              !.chosen_display = EmptyDict]

\* ResetAttempt leaving reveal_correct_answers as it is.
ResetAttemptKeepingReveal(a) ==
    [a EXCEPT !.user_answers = EmptyDict, !.show_answers = None, !.score = NoScore,
              !.quiz_start_time = NoTime, !.time_limit_minutes = NoTime,
              !.timer_expired = None,
              !.shuffled_questions = NoShuffle, !.option_shuffles = EmptyDict,
              !.chosen_display = EmptyDict]

\* The reset of app.py:629-637 and app.py:788-796: a dict is cleared, any other
\* value becomes None.
ResetAttempt(a) ==
    [a EXCEPT !.user_answers = EmptyDict, !.show_answers = None, !.score = NoScore,
              !.quiz_start_time = NoTime, !.time_limit_minutes = NoTime,
              !.timer_expired = None, !.reveal_correct_answers = None,
              !.shuffled_questions = NoShuffle, !.option_shuffles = EmptyDict,
              !.chosen_display = EmptyDict]

\* The Start button (app.py:523-535).
StartQuiz(a, selected_time) ==
    [a EXCEPT !.time_limit_minutes = IF selected_time # "No timer"
                                     THEN ParseMinutes(selected_time) ELSE NoTime,
              !.quiz_start_time = now]

\* AutoSubmit without timer_expired.
AutoSubmitUnflagged(a) == [a EXCEPT !.show_answers = "True"]

\* Timer expiry (app.py:543-547).
AutoSubmit(a) == [a EXCEPT !.timer_expired = "True", !.show_answers = "True"]

\* The Submit button once correct_count is known (app.py:608-610).
SubmitQuiz(a, correct_count, total) ==
    [a EXCEPT !.score = <<correct_count, total>>, !.show_answers = "True"]

\* Answering without the test of show_answers.
AnsweringWhileShown(show, expired) == ~Truthy(expired)

\* The test of app.py:569: the radios take input.
Answering(show, expired) == ~Truthy(show) /\ ~Truthy(expired)

\* quiz_ended (app.py:595)
QuizEnded(show, expired) == Truthy(show) \/ Truthy(expired)

\* The session state after one run of take_quiz_section on the canonical
\* questions orig, for the button btn the user clicked (or NoButton), the
\* radio selection ans the user made (or NoAns), the value selected_time of
\* the time-limit selectbox and the outcome sh of the shuffle.
TakeQuizResult(orig, btn, ans, selected_time, sh) ==
    LET a0 == [Attempt EXCEPT !.shuffled_questions = sh.shuffled_questions,
                              !.option_shuffles = sh.option_shuffles]
        env == [orig |-> orig, shuffled |-> Presented(orig, sh),
                option_shuffles |-> sh.option_shuffles,
                answering |-> Answering(show_answers, timer_expired),
                ans |-> ans]
        quiz_ended == QuizEnded(show_answers, timer_expired)
    IN
    IF Configuring /\ btn = "Start Quiz" THEN StartQuiz(a0, selected_time)
    ELSE IF /\ quiz_start_time # NoTime /\ ~Truthy(show_answers)
            /\ Expired(quiz_start_time, time_limit_minutes, now)
    THEN AutoSubmit(a0)
    ELSE
    LET loop == QuestionLoop(0, env, [ua |-> user_answers, cd |-> chosen_display,
                                      fault |-> FALSE])
        a1 == [a0 EXCEPT !.user_answers = loop.ua, !.chosen_display = loop.cd,
                         !.fault = loop.fault]
    IN
    IF loop.fault THEN a1
    ELSE IF ~quiz_ended /\ btn = "Submit Quiz"
    THEN LET sub == SubmitLoop(0, env, loop.ua, [correct_count |-> 0, fault |-> FALSE])
         IN IF sub.fault THEN Raise(a1)
            ELSE SubmitQuiz(a1, sub.correct_count, Len(env.shuffled))
    ELSE IF quiz_ended /\ ~Truthy(reveal_correct_answers)
                       /\ btn = "Show correct answers & explanations"
    THEN [a1 EXCEPT !.reveal_correct_answers = "True"]
    ELSE IF quiz_ended /\ Truthy(reveal_correct_answers) /\ btn = "Hide correct answers"
    THEN [a1 EXCEPT !.reveal_correct_answers = "False"]
    ELSE IF quiz_ended /\ btn = "Restart this quiz"
    THEN ResetAttempt(a1)
    ELSE a1

\* The session state becomes a.
Store(a) ==
    /\ user_answers' = a.user_answers
    /\ show_answers' = a.show_answers
    /\ score' = a.score
    /\ quiz_start_time' = a.quiz_start_time
    /\ time_limit_minutes' = a.time_limit_minutes
    /\ timer_expired' = a.timer_expired
    /\ reveal_correct_answers' = a.reveal_correct_answers
    /\ shuffled_questions' = a.shuffled_questions
    /\ option_shuffles' = a.option_shuffles
    /\ chosen_display' = a.chosen_display
    /\ fault' = a.fault

\* A run of take_quiz_section (app.py:481-642) on the quiz collection qz.
\* quizzes[selected_quiz] raises KeyError when the collection has no such
\* title (app.py:482).
take_quiz_section(qz, btn, ans, selected_time) ==
    IF selected_quiz \notin DOMAIN qz THEN Store(Raise(Attempt))
    ELSE \E sh \in ShuffleDraws(original_questions(qz)) :
            Store(TakeQuizResult(original_questions(qz), btn, ans, selected_time, sh))

\* The main content of the page (app.py:822-827): take_quiz_section once a
\* quiz is selected, a notice otherwise.
MainContent(selected_depts, qz, btn, ans, selected_time) ==
    IF selected_depts # {} /\ selected_quiz # None
    THEN take_quiz_section(qz, btn, ans, selected_time)
    ELSE Store(Attempt)

\* The main content shows the selected quiz.
QuizShown == selected_departments # {} /\ selected_quiz # None

-----------------------------------------------------------------------------
(* The script runs, by what the user did *)

\* A run without input: the rerun of app.py:640-642 once per second while the
\* timer runs, and the rerun that st.rerun() asks for.
TickRun ==
    /\ QuizShown
    /\ SidebarRerun
    /\ take_quiz_section(quizzes, NoButton, NoAns, "No timer")
    /\ UNCHANGED << store, quizzes, selected_quiz, now, edit_vars >>
    /\ Quiet

\* The user selected an option of a radio.
AnswerRun ==
    /\ QuizShown
    /\ SidebarRerun
    /\ \E ans \in AnsInputs : take_quiz_section(quizzes, NoButton, ans, "No timer")
    /\ UNCHANGED << store, quizzes, selected_quiz, now, edit_vars >>
    /\ Quiet

\* The user clicked Start Quiz, with the time limit chosen in the selectbox.
\* A timed attempt is started only while its deadline is an instant of the
\* model's clock.
StartRun ==
    /\ QuizShown
    /\ SidebarRerun
    /\ \E selected_time \in TimeChoices :
          /\ selected_time # "No timer"
                => now + LimitTicks(ParseMinutes(selected_time)) <= MaxNow
          /\ take_quiz_section(quizzes, "Start Quiz", NoAns, selected_time)
    /\ UNCHANGED << store, quizzes, selected_quiz, now, edit_vars >>
    /\ Quiet

\* The user clicked Submit Quiz, possibly right after selecting an option.
SubmitRun ==
    /\ QuizShown
    /\ SidebarRerun
    /\ \E ans \in AnsInputs \cup {NoAns} :
          take_quiz_section(quizzes, "Submit Quiz", ans, "No timer")
    /\ UNCHANGED << store, quizzes, selected_quiz, now, edit_vars >>
    /\ Quiet

ShowAnswersRun ==
    /\ QuizShown
    /\ SidebarRerun
    /\ take_quiz_section(quizzes, "Show correct answers & explanations", NoAns, "No timer")
    /\ UNCHANGED << store, quizzes, selected_quiz, now, edit_vars >>
    /\ Quiet

HideAnswersRun ==
    /\ QuizShown
    /\ SidebarRerun
    /\ take_quiz_section(quizzes, "Hide correct answers", NoAns, "No timer")
    /\ UNCHANGED << store, quizzes, selected_quiz, now, edit_vars >>
    /\ Quiet

RestartRun ==
    /\ QuizShown
    /\ SidebarRerun
    /\ take_quiz_section(quizzes, "Restart this quiz", NoAns, "No timer")
    /\ UNCHANGED << store, quizzes, selected_quiz, now, edit_vars >>
    /\ Quiet

\* SelectQuizRun without the test `if not active`.
SelectQuizRunResetting ==
    /\ SidebarRerun
    /\ \E real_title \in Clickable :
          /\ selected_quiz' = real_title
          /\ Store(ResetAttempt(Attempt))
    /\ UNCHANGED << store, quizzes, now, edit_vars >>
    /\ Quiet

\* The user clicked the button of quiz real_title in the sidebar
\* (app.py:779-797).  The button of the selected quiz changes nothing and the
\* script goes on to the main content.
SelectQuizRun ==
    /\ SidebarRerun
    /\ \E real_title \in Clickable :
          IF real_title # selected_quiz
          THEN /\ selected_quiz' = real_title
               /\ Store(ResetAttempt(Attempt))
          ELSE /\ MainContent(selected_departments, quizzes, NoButton, NoAns, "No timer")
               /\ UNCHANGED selected_quiz
    /\ UNCHANGED << store, quizzes, now, edit_vars >>
    /\ Quiet

-----------------------------------------------------------------------------
(* The admin's runs.  The session is followed from the moment the admin has
   logged in (app.py:654-657), so that is_admin() holds in the runs below. *)

\* The documents the admin submits in the model: a title and its questions.
AdminTitles == {"C"}
AdminQuestionLists == { <<QDup>>, <<>> }

\* The Submit JSON button of the add-quiz form (app.py:253-274) for JSON text
\* that parses to a document with the given title and questions: save_quiz
\* (app.py:72-84) replaces the stored document of that title and reloads the
\* session's collection, and the script goes on to the main content.  The
\* form is rendered below the filters and the quiz list (app.py:810-816), so
\* the sidebar of this run is that of the documents loaded before.  The
\* messages of the form are followed in SubmitJsonRun.
AddQuizRun ==
    /\ SidebarRerun
    /\ \E title \in AdminTitles, qs \in AdminQuestionLists :
          /\ store' = ReplaceOne(store, title, Doc(title, qs))
          /\ quizzes' = load_quizzes(store')
          /\ MainContent(selected_departments, quizzes', NoButton, NoAns, "No timer")
    /\ Quiet
    /\ UNCHANGED << selected_quiz, now, edit_vars >>

\* Time passes.  The clock is followed only while a timed attempt runs:
\* nothing else in the script reads it but the Start button (app.py:528),
\* and an attempt's timer depends only on the time since its start.
Advance == /\ quiz_start_time # NoTime /\ ~Truthy(show_answers)
           /\ time_limit_minutes # NoTime /\ time_limit_minutes # 0
           /\ \E t \in TimePoints : t > now /\ now' = t
           /\ UNCHANGED << store, quizzes, selected_quiz, attempt_vars, fault,
                           chosen_display, sidebar_vars, admin_vars >>

Next ==
    \/ SelectQuizRun
    \/ StartRun
    \/ AnswerRun
    \/ SubmitRun
    \/ ShowAnswersRun
    \/ HideAnswersRun
    \/ RestartRun
    \/ TickRun
    \/ AddQuizRun
    \/ Advance

Spec == Init /\ [][Next]_vars

-----------------------------------------------------------------------------
(* The phases of an attempt *)

Phase ==
    IF Truthy(show_answers) \/ Truthy(timer_expired) THEN "Ended"
    ELSE IF quiz_start_time # NoTime THEN "InProgress"
    ELSE "Configuring"

\* The attempt has a time limit.
Timed == time_limit_minutes # NoTime /\ time_limit_minutes # 0

\* The step destroys the attempt: Restart, or the selection of another quiz.
AttemptReset ==
    /\ user_answers' = EmptyDict /\ option_shuffles' = EmptyDict
    /\ shuffled_questions' = NoShuffle /\ score' = NoScore
    /\ quiz_start_time' = NoTime /\ time_limit_minutes' = NoTime
    /\ show_answers' = None /\ timer_expired' = None
    /\ reveal_correct_answers' = None

\* The step is Restart taking effect, or the selection of another quiz.
RestartOrSelect ==
    /\ AttemptReset
    /\ selected_quiz' # selected_quiz \/ Phase = "Ended"

\* The questions in presentation order (app.py:507).
PresentedNow ==
    IF selected_quiz = None THEN <<>>
    ELSE Presented(original_questions(quizzes),
                   [shuffled_questions |-> shuffled_questions,
                    option_shuffles |-> option_shuffles])

\* The presentation positions that hold a response.
Answered == {i \in DOMAIN user_answers : i < Len(PresentedNow)}

\* The option string on display at index k of the radio at position i
\* (app.py:565-566).
DisplayedOption(i, k) ==
    LET q == At(PresentedNow, i)
        orig_idx == Index(original_questions(quizzes), q)
        shuffle_map == DictGet(option_shuffles, orig_idx, Range0(Len(q.options)))
    IN At(OptsShuffled(q.options, shuffle_map), k)

\* The step is a Submit taking effect: the score is set.
Scores == score' # score /\ score' # NoScore

-----------------------------------------------------------------------------
(* Scoring *)

\* The answered positions whose chosen option, as displayed, is the correct
\* option of the canonical question.
CorrectlyAnswered ==
    {i \in Answered : DisplayedOption(i, user_answers[i]) = At(PresentedNow, i).correct}

\* C1: whenever Submit sets the score, the correct count is the number of
\* answered presentation positions whose chosen presentation index, taken
\* through the question's option permutation, is an option equal to the
\* question's `correct`, whatever the question order and the option orders.
C1_ShuffleScoring ==
    [][Scores => score'[1] = Cardinality(CorrectlyAnswered')]_vars

\* A submitted attempt in which a correct response was given at a presentation
\* index that differs from the option's canonical index.
C1_Witness ==
    /\ score # NoScore /\ score[1] >= 1 /\ ~fault
    /\ \E i \in CorrectlyAnswered :
          At(At(PresentedNow, i).options, user_answers[i]) # At(PresentedNow, i).correct

-----------------------------------------------------------------------------
(* The shuffle and the responses *)

\* C2: while the attempt is InProgress or Ended, no step changes the question
\* order or the option orders, except Restart and the selection of another
\* quiz.
C2_ShuffleFixed ==
    [][(Phase \in {"InProgress", "Ended"} /\ ~RestartOrSelect)
          => UNCHANGED << shuffled_questions, option_shuffles >>]_vars

\* Every answered position holds the question and the option that the user
\* chose there.
JudgedAsChosen ==
    \A i \in Answered :
        /\ i \in DOMAIN chosen_display
        /\ chosen_display[i] = [question |-> At(PresentedNow, i),
                                option |-> DisplayedOption(i, user_answers[i])]

\* C3: when Submit scores the attempt, the question and the option it judges
\* at every answered position are the ones that were on display at that
\* position and index when the user chose.
C3_JudgedAsChosen == [][Scores => JudgedAsChosen']_vars

\* The step records a response: a position gets a response or a new one.
Records ==
    \E i \in DOMAIN user_answers' :
        i \notin DOMAIN user_answers \/ user_answers'[i] # user_answers[i]

\* C4: a response is recorded only by a run of an InProgress attempt whose
\* timer has not expired.
C4_RecordsOnlyInProgress ==
    [][Records => /\ Phase = "InProgress"
                  /\ ~Expired(quiz_start_time, time_limit_minutes, now)]_vars

-----------------------------------------------------------------------------
(* The phases *)

\* The phase changes of the state machine.
PhaseStep ==
    \/ Phase' = Phase
    \/ Phase = "Configuring" /\ Phase' = "InProgress"
    \/ Phase = "InProgress" /\ Phase' = "Ended"
    \/ Phase' = "Configuring" /\ RestartOrSelect

\* C5: the phase changes only from Configuring to InProgress, from InProgress
\* to Ended, and to Configuring by Restart or by the selection of another
\* quiz; Submit takes effect only in InProgress.
C5_PhaseMachine == [][PhaseStep /\ (Scores => Phase = "InProgress")]_vars

\* C6: in Ended no step changes score or user_answers, except Restart and the
\* selection of another quiz; the score is set only in the step that ends the
\* attempt, from no score.
C6_ScoredOnce ==
    [][/\ (Phase = "Ended" /\ ~RestartOrSelect)
             => (score' = score /\ user_answers' = user_answers)
       /\ Scores => (score = NoScore /\ Phase # "Ended" /\ Phase' = "Ended")]_vars

\* A submitted attempt with responses, after a run in Ended that revealed the
\* answers.
C6_Witness ==
    /\ Phase = "Ended" /\ score # NoScore /\ user_answers # EmptyDict
    /\ Truthy(reveal_correct_answers)

-----------------------------------------------------------------------------
(* The timer *)

\* The deadline of a timed attempt has come.
DeadlineReached ==
    /\ Timed /\ quiz_start_time # NoTime
    /\ now - quiz_start_time >= LimitTicks(time_limit_minutes)

\* C7: a run of an InProgress attempt that begins at or after the deadline
\* sets timer_expired and show_answers and applies neither an answer
\* selection nor a Submit; timer_expired then stays set, so that the radios
\* and the Submit button are not offered again, until Restart or the
\* selection of another quiz.
C7_ExpiryFirst ==
    [][/\ (/\ selected_quiz # None /\ Phase = "InProgress" /\ DeadlineReached
           /\ now' = now /\ selected_quiz' = selected_quiz)
             => (/\ Truthy(timer_expired') /\ Truthy(show_answers')
                 /\ user_answers' = user_answers /\ score' = score)
       /\ Truthy(timer_expired)
             => (\/ Truthy(timer_expired') /\ ~Answering(show_answers', timer_expired')
                 \/ RestartOrSelect)]_vars

\* An attempt with responses that the timer ended at or after its deadline.
C7_Witness ==
    /\ Truthy(timer_expired) /\ Truthy(show_answers) /\ DeadlineReached
    /\ user_answers # EmptyDict /\ score = NoScore

\* C8: an attempt ended by the timer holds the score that Submit computes from
\* its responses.
C8_ExpiryScored ==
    Truthy(timer_expired)
        => /\ score # NoScore
           /\ score = << Cardinality(CorrectlyAnswered), Len(PresentedNow) >>


-----------------------------------------------------------------------------
(* The timer computation, instant by instant *)

\* An attempt on the quiz without questions, just started with any of the
\* time limits, at any instant of the first second.
InitTimer ==
    /\ store = [t \in Titles |-> Doc(t, InitialQuestions[t])]
    /\ quizzes = load_quizzes(store)
    /\ selected_quiz = "C"
    /\ user_answers = EmptyDict
    /\ show_answers = None
    /\ score = NoScore
    /\ quiz_start_time \in 0..TicksPerSecond
    /\ time_limit_minutes \in
          {IF c = "No timer" THEN NoTime ELSE ParseMinutes(c) : c \in TimeChoices}
    /\ timer_expired = None
    /\ reveal_correct_answers = None
    /\ shuffled_questions = NoShuffle
    /\ option_shuffles = EmptyDict
    /\ now = quiz_start_time
    /\ fault = FALSE
    /\ chosen_display = EmptyDict
    /\ NoEdit
    /\ SidebarIs(CourseFilters)

\* The clock moves on by one tick, up to a second past the last deadline.
ClockTick ==
    /\ now < MaxNow + TicksPerSecond
    /\ now' = now + 1
    /\ UNCHANGED << store, quizzes, selected_quiz, attempt_vars, fault,
                    chosen_display, sidebar_vars, admin_vars >>

NextTimer == TickRun \/ ClockTick

SpecTimer == InitTimer /\ [][NextTimer]_vars

\* What the timer computes at the present instant.
C9_Remaining ==
    LET e == now - quiz_start_time
        T == time_limit_minutes * SecondsPerMinute
        remaining_sec == RemainingSec(quiz_start_time, time_limit_minutes, now)
        expired == Expired(quiz_start_time, time_limit_minutes, now)
    IN /\ ~Timed => (~expired /\ ~Truthy(timer_expired))
       /\ Timed => /\ remaining_sec \in 0..T
                   /\ e % TicksPerSecond = 0
                        => remaining_sec = Max(0, T - e \div TicksPerSecond)
                   /\ expired <=> remaining_sec = 0
                   /\ e = (T + 1) * TicksPerSecond => expired
                   /\ e = 0 => (remaining_sec = T /\ ~expired)
       /\ Truthy(timer_expired) => (Timed /\ remaining_sec = 0)

\* C9: without a limit the timer never expires; with a limit of T seconds the
\* remaining time lies in 0..T and, e whole seconds after the start, is
\* max(0, T - e); expiry is declared exactly when a limit is set and the
\* remaining time is 0; e = T + 1 gives expiry and e = 0 gives T.
C9_TimerComputation ==
    /\ []C9_Remaining
    /\ [][(now' = now /\ Phase = "InProgress")
             => (Truthy(timer_expired')
                   <=> Expired(quiz_start_time, time_limit_minutes, now))]_vars

\* A timed attempt found expired one second after its deadline.
C9_Witness ==
    /\ Timed /\ Truthy(timer_expired)
    /\ now - quiz_start_time = LimitTicks(time_limit_minutes) + TicksPerSecond

-----------------------------------------------------------------------------
(* Auto-submission *)

\* The re-run that the quiz view schedules once per second while the timer
\* runs (app.py:640-642), taken when the time is up.
ExpiryRun ==
    /\ Phase = "InProgress"
    /\ Expired(quiz_start_time, time_limit_minutes, now)
    /\ TickRun

\* Time passes, and the scheduled re-run happens.
FairSpec == Spec /\ WF_vars(Advance) /\ WF_vars(ExpiryRun)

\* C10: a timed InProgress attempt eventually leaves InProgress; an attempt
\* leaves InProgress for Ended only by timer expiry or by Submit; and the
\* timer never ends an attempt that has no time limit.
C10_AutoSubmitLive ==
    /\ (Phase = "InProgress" /\ Timed) ~> (Phase # "InProgress")
    /\ [](Truthy(timer_expired) => Timed)
    /\ [][(Phase = "InProgress" /\ Phase' = "Ended")
             => (Truthy(timer_expired') \/ Scores)]_vars

\* A timed attempt that the timer ended before any response was given.
C10_Witness ==
    /\ Phase = "Ended" /\ Timed /\ Truthy(timer_expired)
    /\ user_answers = EmptyDict /\ score = NoScore

-----------------------------------------------------------------------------
(* The score display (app.py:612-616) *)

\* f"{x:.0f}" for the rational x = num / den, den > 0: the nearest integer,
\* the even one of two equally near.
RoundHalfEven(num, den) ==
    LET q == num \div den
        r == num % den
    IN IF 2 * r < den THEN q
       ELSE IF 2 * r > den THEN q + 1
       ELSE IF q % 2 = 0 THEN q ELSE q + 1

\* The outcome of a division by zero.
ZeroDivisionError == -1

\* Pct without the test of t.
PctUnguarded(c, t) ==
    IF t # 0 THEN RoundHalfEven(c * 100, t) ELSE ZeroDivisionError

\* The percentage shown with the score (app.py:614-615).
Pct(c, t) == IF t > 0 THEN RoundHalfEven(c * 100, t) ELSE 0

-----------------------------------------------------------------------------
(* The quiz without questions *)

\* The selected quiz has no questions.
EmptyQuiz == selected_quiz # None /\ original_questions(quizzes) = <<>>

\* C11: a run on a document without questions generates no shuffle; for an
\* attempt on such a document no run faults, Submit sets the score to (0, 0),
\* and the percentage shown with it is 0.
C11_ZeroQuestions ==
    /\ [][(EmptyQuiz /\ EmptyQuiz')
             => /\ shuffled_questions' \in {shuffled_questions, NoShuffle}
                /\ option_shuffles' \in {option_shuffles, EmptyDict}
                /\ shuffled_questions = NoShuffle
                      => (~fault' /\ (Scores => score' = << 0, 0 >>))]_vars
    /\ []((EmptyQuiz /\ shuffled_questions = NoShuffle /\ score # NoScore)
             => (score = << 0, 0 >> /\ Pct(score[1], score[2]) = 0))

\* An attempt on the quiz without questions, submitted at the instant it was
\* started.
C11_Witness ==
    /\ EmptyQuiz /\ shuffled_questions = NoShuffle
    /\ quiz_start_time # NoTime /\ now = quiz_start_time
    /\ score = << 0, 0 >> /\ Truthy(show_answers) /\ ~fault

-----------------------------------------------------------------------------
(* Questions with data errors *)

\* The test of app.py:561, negated: the question has options and its
\* `correct` is one of them.
ValidQuestion(q) == q.options # <<>> /\ Contains(q.options, q.correct)

\* The presentation positions of the questions without data errors.
ValidPositions ==
    {i \in 0..(Len(PresentedNow) - 1) : ValidQuestion(At(PresentedNow, i))}

\* Every presented question is a question of the selected quiz's document.
PresentedFromDocument ==
    \A i \in 0..(Len(PresentedNow) - 1) :
        Contains(original_questions(quizzes), At(PresentedNow, i))

\* C12: no run records a response at the position of a question with a data
\* error, no run faults on such a question, and when Submit sets the score
\* the questions with data errors count neither in the correct count nor in
\* the total.
C12_DataErrors ==
    [][/\ \A i \in DOMAIN user_answers' :
             (i \notin DOMAIN user_answers \/ user_answers'[i] # user_answers[i])
                => i \in ValidPositions'
       /\ (selected_quiz' # None /\ PresentedFromDocument') => ~fault'
       /\ Scores => /\ score'[2] = Cardinality(ValidPositions')
                    /\ score'[1] = Cardinality(CorrectlyAnswered' \cap ValidPositions')]_vars

-----------------------------------------------------------------------------
(* The reveal (app.py:576-592) *)

\* What the reveal shows at presentation position i (app.py:576-588).
Verdict(i) ==
    LET q == At(PresentedNow, i)
        opts_orig == q.options
        orig_idx == Index(original_questions(quizzes), q)
        shuffle_map == DictGet(option_shuffles, orig_idx, Range0(Len(opts_orig)))
        user_idx == DictGet(user_answers, i, NoIndex)
        correct_shuf_idx == Index(shuffle_map, Index(opts_orig, q.correct))
    IN IF user_idx = NoIndex THEN "Skipped"
       ELSE IF user_idx = correct_shuf_idx THEN "Correct"
       ELSE "Incorrect"

\* The answers are revealed, by a run that rendered every question.
Revealed ==
    /\ selected_quiz # None /\ Phase = "Ended" /\ Truthy(reveal_correct_answers)
    /\ ~fault /\ PresentedFromDocument

\* C13: with the answers revealed, a valid position shows Skipped iff it holds
\* no response, Correct iff the chosen option taken through the option
\* permutation equals `correct` (as Submit counts it), and Incorrect
\* otherwise.
C13_RevealAgrees ==
    Revealed =>
        \A i \in ValidPositions :
            Verdict(i) = IF i \notin DOMAIN user_answers THEN "Skipped"
                         ELSE IF i \in CorrectlyAnswered THEN "Correct"
                         ELSE "Incorrect"

\* C14: reveal_correct_answers is true only in Ended, and a step that changes
\* it without destroying the attempt flips it and leaves the score, the
\* responses, the shuffle, the timer fields and the phase as they are.
C14_RevealOnlyEnded ==
    /\ [](Truthy(reveal_correct_answers) => Phase = "Ended")
    /\ [][(reveal_correct_answers' # reveal_correct_answers /\ ~AttemptReset)
             => /\ Truthy(reveal_correct_answers') # Truthy(reveal_correct_answers)
                /\ Phase = "Ended" /\ Phase' = "Ended"
                /\ UNCHANGED << score, user_answers, shuffled_questions,
                                option_shuffles, quiz_start_time, time_limit_minutes,
                                timer_expired, show_answers >>]_vars

\* An ended attempt whose answers were revealed and then hidden again.
C14_Witness ==
    /\ Phase = "Ended" /\ reveal_correct_answers = "False"
    /\ score # NoScore /\ user_answers # EmptyDict

-----------------------------------------------------------------------------
(* One quiz, attempt after attempt *)

\* The session right after the user selected a quiz that has questions
\* (app.py:785-797).
InitAttempt ==
    /\ store = [t \in Titles |-> Doc(t, InitialQuestions[t])]
    /\ quizzes = load_quizzes(store)
    /\ selected_quiz \in {t \in Titles : InitialQuestions[t] # <<>>}
    /\ user_answers = EmptyDict
    /\ show_answers = None
    /\ score = NoScore
    /\ quiz_start_time = NoTime
    /\ time_limit_minutes = NoTime
    /\ timer_expired = None
    /\ reveal_correct_answers = None
    /\ shuffled_questions = NoShuffle
    /\ option_shuffles = EmptyDict
    /\ now = 0
    /\ fault = FALSE
    /\ chosen_display = EmptyDict
    /\ NoEdit
    /\ SidebarIs(CourseFilters)

\* The runs of take_quiz_section and the clock: the user stays with the
\* selected quiz and no document is saved.
NextAttempt ==
    \/ StartRun
    \/ AnswerRun
    \/ SubmitRun
    \/ ShowAnswersRun
    \/ HideAnswersRun
    \/ RestartRun
    \/ TickRun
    \/ Advance

SpecAttempt == InitAttempt /\ [][NextAttempt]_vars

\* The step drops a response, the start time or the score.
Discards ==
    \/ quiz_start_time # NoTime /\ quiz_start_time' = NoTime
    \/ score # NoScore /\ score' = NoScore
    \/ \E i \in DOMAIN user_answers : i \notin DOMAIN user_answers'

\* C15: the only step out of Ended on the same quiz resets every attempt
\* field, ends in Configuring and leaves the selection, the loaded documents
\* and the store as they are; outside Ended no step on the same quiz discards
\* attempt data; and the attempt that Start begins after it holds a shuffle
\* generated for it, an order of the document's questions with an order of
\* each question's options.
C15_RestartIsolation ==
    [][/\ (Phase = "Ended" /\ Phase' # "Ended" /\ selected_quiz' = selected_quiz)
             => /\ AttemptReset /\ Phase' = "Configuring"
                /\ UNCHANGED << selected_quiz, quizzes, store >>
       /\ (Phase # "Ended" /\ selected_quiz' = selected_quiz) => ~Discards
       /\ (Phase = "Configuring" /\ Phase' = "InProgress" /\ selected_quiz # None
             /\ original_questions(quizzes) # <<>>)
             => /\ user_answers' = user_answers
                /\ [shuffled_questions |-> shuffled_questions',
                    option_shuffles |-> option_shuffles']
                      \in ShuffleOutcomes(original_questions(quizzes))]_vars

\* An attempt started after an earlier attempt on the same quiz was
\* restarted: it began after the clock had moved, which the clock does only
\* while a timed attempt runs.
C15_Witness ==
    /\ Phase = "InProgress" /\ quiz_start_time > 0
    /\ user_answers = EmptyDict /\ shuffled_questions # NoShuffle

-----------------------------------------------------------------------------
(* From quiz to quiz *)

\* The user goes from quiz to quiz and takes them, without restarting any.
NextSelect ==
    \/ SelectQuizRun
    \/ StartRun
    \/ AnswerRun
    \/ SubmitRun
    \/ TickRun
    \/ Advance

SpecSelect == Init /\ [][NextSelect]_vars

-----------------------------------------------------------------------------
(* Finding a quiz: the filters of the sidebar *)

\* The collections of documents the filters are followed on.  In the first,
\* two departments teach a course of the same name and a third document
\* names its department by the legacy key; in the second no document has a
\* level or a semester, and one has no department; the third holds the
\* quizzes of the course CSC 101.
Catalogs ==
    { [t \in {"A", "B", "C"} |->
          CASE t = "A" -> FacetDoc("A", <<>>, "Bio", "", "100 Level", "First Semester",
                                   "CSC 101", "Week 1", "Quiz 1")
            [] t = "B" -> FacetDoc("B", <<>>, "Chem", "", "100 Level", "First Semester",
                                   "CSC 101", "Week 2", "Past Questions")
            [] t = "C" -> FacetDoc("C", <<>>, "", "Phys", "200 Level", "Second Semester",
                                   "MAT 111", "Week 1", "")],
      [t \in {"A", "B"} |->
          CASE t = "A" -> FacetDoc("A", <<>>, "Bio", "", "", "", "CSC 101", "", "")
            [] t = "B" -> FacetDoc("B", <<>>, "", "", "", "", "", "", "")],
      [t \in Titles |-> Doc(t, InitialQuestions[t])] }

\* The session after its first run: nothing is selected.
InitSidebar ==
    /\ store \in Catalogs
    /\ quizzes = load_quizzes(store)
    /\ selected_quiz = None
    /\ user_answers = EmptyDict
    /\ show_answers = "False"
    /\ score = NoScore
    /\ quiz_start_time = NoTime
    /\ time_limit_minutes = NoTime
    /\ timer_expired = "False"
    /\ reveal_correct_answers = "False"
    /\ shuffled_questions = NoShuffle
    /\ option_shuffles = EmptyDict
    /\ now = 0
    /\ fault = FALSE
    /\ chosen_display = EmptyDict
    /\ NoEdit
    /\ SidebarIs(NoFilters)

\* S with v added, or removed if it is there.
Toggle(S, v) == IF v \in S THEN S \ {v} ELSE S \cup {v}

\* The value a multiselect returns in a run in which the user changed a
\* control upstream of it.  A multiselect that is not rendered, or was not
\* rendered by the run before, returns its default, [].  Otherwise it returns
\* either what it held, without the values that are no longer among its
\* options, or (reset) its default if its options have changed: Streamlit
\* versions differ in this.
Carry(old_value, old_control, shown, options, reset) ==
    IF ~shown \/ ~old_control.shown THEN {}
    ELSE IF reset THEN (IF options = old_control.options THEN old_value ELSE {})
    ELSE old_value \cap Set(options)

\* The values the multiselects return in the run after the user added the
\* option v to, or removed it from, the k-th multiselect.
UserToggle(qz, k, v, reset) ==
    LET d == IF k = 1 THEN Toggle(selected_departments, v) ELSE selected_departments
        l == IF k = 2 THEN Toggle(selected_levels, v)
             ELSE IF k > 2 THEN selected_levels
             ELSE Carry(selected_levels, offered.level, ShowLevel(d),
                        get_all_levels(qz), reset)
        s == IF k = 3 THEN Toggle(selected_semesters, v)
             ELSE IF k > 3 THEN selected_semesters
             ELSE Carry(selected_semesters, offered.semester, ShowSemester(d, l),
                        get_all_semesters(qz), reset)
        c == IF k = 4 THEN Toggle(selected_courses, v)
             ELSE IF k > 4 THEN selected_courses
             ELSE Carry(selected_courses, offered.course, ShowCourse(d, l, s),
                        get_courses_for(qz, d, l, s), reset)
        w == IF k = 5 THEN Toggle(selected_weeks, v)
             ELSE IF k > 5 THEN selected_weeks
             ELSE Carry(selected_weeks, offered.week, ShowWeek(d, l, s, c),
                        get_weeks_for(qz, l, s, c), reset)
        cat == IF k = 6 THEN Toggle(selected_categories, v)
               ELSE Carry(selected_categories, offered.category,
                          ShowCategory(d, l, s, c, w),
                          get_categories_for(qz, l, s, c, w), reset)
    IN [dept |-> d, level |-> l, semester |-> s, course |-> c, week |-> w,
        category |-> cat]

\* The user changed one of the multiselects by one of the options it offers.
FilterRun ==
    /\ \E k \in 1..Len(FacetOrder), reset \in BOOLEAN :
          /\ offered[FacetOrder[k]].shown
          /\ \E v \in Set(offered[FacetOrder[k]].options) :
                LET side == Sidebar(quizzes, UserToggle(quizzes, k, v, reset)) IN
                /\ StoreSidebar(side)
                /\ MainContent(side.selected_departments, quizzes, NoButton, NoAns,
                               "No timer")
    /\ UNCHANGED << store, quizzes, selected_quiz, now, edit_vars >>
    /\ Quiet

NextSidebar == FilterRun

SpecSidebar == InitSidebar /\ [][NextSidebar]_vars

-----------------------------------------------------------------------------
(* The facets *)

\* seq lists the strings of S, each once, in ascending order.
IsSortedListOf(seq, S) ==
    /\ Set(seq) = S /\ Len(seq) = Cardinality(S)
    /\ \A i, j \in 1..Len(seq) : i < j => Rank(seq[i]) < Rank(seq[j])

\* The levels and the semesters that the loaded documents have.
LevelsPresent == {quiz.level : quiz \in Values(quizzes)} \ {""}
SemestersPresent == {quiz.semester : quiz \in Values(quizzes)} \ {""}

\* C17: when no loaded document has a level, get_all_levels is the four
\* fallback levels in order, and when none has a semester, get_all_semesters
\* is the two fallback semesters; otherwise each is the sorted list of the
\* values present.  The Level and Semester controls offer these lists.
C17_FacetFallback ==
    /\ LevelsPresent = {}
          => get_all_levels(quizzes)
                = << "100 Level", "200 Level", "300 Level", "400 Level" >>
    /\ LevelsPresent # {} => IsSortedListOf(get_all_levels(quizzes), LevelsPresent)
    /\ SemestersPresent = {}
          => get_all_semesters(quizzes) = << "First Semester", "Second Semester" >>
    /\ SemestersPresent # {}
          => IsSortedListOf(get_all_semesters(quizzes), SemestersPresent)
    /\ offered.level.shown => offered.level.options = get_all_levels(quizzes)
    /\ offered.semester.shown => offered.semester.options = get_all_semesters(quizzes)

\* No loaded document has a level or a semester, and the user has chosen a
\* level and a semester from the fallback values.
C17_Witness ==
    /\ LevelsPresent = {} /\ SemestersPresent = {}
    /\ offered.level.options = << "100 Level", "200 Level", "300 Level", "400 Level" >>
    /\ offered.semester.options = << "First Semester", "Second Semester" >>
    /\ selected_levels # {} /\ selected_semesters # {}


\* The non-empty filter sets: of departments, of levels and of semesters.
NonEmpty(S) == SUBSET S \ {{}}
DeptFilters == NonEmpty({"Bio", "Chem", "Phys", "Uncategorized"})
LevelFilters == NonEmpty({"100 Level", "200 Level", "300 Level"})
SemesterFilters == NonEmpty({"First Semester", "Second Semester"})

\* The courses of the loaded documents whose department (or legacy
\* category), level and semester are in the filter sets.
CoursesMatching(depts, levels, sems) ==
    {quiz.course : quiz \in {q \in Values(quizzes) :
                               /\ DeptOf(q) \in depts
                               /\ q.level \in levels
                               /\ q.semester \in sems}} \ {""}

\* C18: for non-empty filter sets, get_courses_for lists exactly the
\* non-empty courses of the documents that match all three filters, and a
\* non-empty subset of any one filter set gives a subset of the courses.  The
\* Course control offers get_courses_for of the selections.
C18_CourseFilter ==
    /\ \A depts \in DeptFilters, levels \in LevelFilters, sems \in SemesterFilters :
          LET courses == get_courses_for(quizzes, depts, levels, sems) IN
          /\ IsSortedListOf(courses, CoursesMatching(depts, levels, sems))
          /\ \A d \in NonEmpty(depts) :
                Set(get_courses_for(quizzes, d, levels, sems)) \subseteq Set(courses)
          /\ \A l \in NonEmpty(levels) :
                Set(get_courses_for(quizzes, depts, l, sems)) \subseteq Set(courses)
          /\ \A s \in NonEmpty(sems) :
                Set(get_courses_for(quizzes, depts, levels, s)) \subseteq Set(courses)
    /\ offered.course.shown
          => offered.course.options
                = get_courses_for(quizzes, selected_departments, selected_levels,
                                  selected_semesters)

\* The Course control offers two courses, for filters of which a narrower
\* one offers fewer.
C18_Witness ==
    /\ offered.course.shown /\ Len(offered.course.options) = 2
    /\ \E d \in NonEmpty(selected_departments) :
          Len(get_courses_for(quizzes, d, selected_levels, selected_semesters)) = 1


-----------------------------------------------------------------------------
(* The cascade *)

\* C19: after every run a facet selection is non-empty only if every
\* selection upstream of it is non-empty, in the order department, level,
\* semester, course, week, category; the course options are computed only
\* when department, level and semester are chosen, and the quiz list is
\* produced only when department, level, semester and course are chosen.
C19_StrictCascade ==
    /\ selected_levels # {} => selected_departments # {}
    /\ selected_semesters # {} => selected_levels # {}
    /\ selected_courses # {} => selected_semesters # {}
    /\ selected_weeks # {} => selected_courses # {}
    /\ selected_categories # {} => selected_weeks # {}
    /\ offered.course.shown
          => (selected_departments # {} /\ selected_levels # {}
                /\ selected_semesters # {})
    /\ offered.quiz_list.shown
          => (selected_departments # {} /\ selected_levels # {}
                /\ selected_semesters # {} /\ selected_courses # {})

\* The user has chosen a value of every facet, down to the category, and the
\* quiz list is produced.
C19_Witness ==
    /\ selected_departments # {} /\ selected_levels # {} /\ selected_semesters # {}
    /\ selected_courses # {} /\ selected_weeks # {} /\ selected_categories # {}
    /\ offered.course.shown /\ offered.quiz_list.shown

\* The offers of the Week and Category controls, value by value.
WeekOffers == IF offered.week.shown THEN Set(offered.week.options) ELSE {}
CategoryOffers == IF offered.category.shown THEN Set(offered.category.options) ELSE {}

\* C20: every week the Week control offers is the week of a loaded document
\* that matches the selected departments, levels, semesters and courses, and
\* every category the Category control offers is the category of a loaded
\* document that matches these and the selected weeks: choosing any one
\* offered value leaves a quiz in the list.
C20_ValidFacetValues ==
    /\ \A wk \in WeekOffers :
          filtered(quizzes, selected_departments, selected_levels, selected_semesters,
                   selected_courses, {wk}, {}) # {}
    /\ \A qc \in CategoryOffers :
          filtered(quizzes, selected_departments, selected_levels, selected_semesters,
                   selected_courses, selected_weeks, {qc}) # {}

-----------------------------------------------------------------------------
(* The admin's forms (app.py:72-104, 218-476, 798-808) *)

\* A text the admin submits as JSON, by what json.loads makes of it: the
\* empty text, a text of white space, a text that is not JSON, or the text of
\* an object.
Text(kind, obj) == [kind |-> kind, object |-> obj]

\* A document without any key.
NoDoc == FacetDoc("", <<>>, "", "", "", "", "", "", "")

EmptyText == Text("empty", NoDoc)
BlankText == Text("blank", NoDoc)
BrokenText == Text("not JSON", NoDoc)

\* text.strip()
strip(text) == IF text.kind = "blank" THEN EmptyText ELSE text

\* json.loads(text) raises JSONDecodeError unless Parses(text).
Parses(text) == text.kind = "object"

\* json.loads(text), for a text that parses.
json_loads(text) == text.object

\* json.dumps(data, indent=2, ensure_ascii=False) (app.py:342)
json_dumps(data) == Text("object", data)

\* a or b, for strings
Or(a, b) == IF a # "" THEN a ELSE b

\* f"Quiz_{n}" (app.py:259)
QuizN(n) == "Quiz_" \o ToString(n)

\* What an operation of the admin leaves: the store, the session's
\* collection and the messages on the page.
Outcome(st, qz, messages) == [store |-> st, quizzes |-> qz, report |-> messages]

\* save_quiz (app.py:72-84) with the upsert replaced by an insert.
save_quiz_inserting(st, title, data) ==
    LET saved == InsertOne(st, title, data)
    IN Outcome(saved, load_quizzes(saved), {"saved"})

\* save_quiz (app.py:72-84), on a store that answers: the document is
\* upserted under the title and the session's collection is reloaded.
save_quiz(st, title, data) ==
    LET saved == ReplaceOne(st, title, data)
    IN Outcome(saved, load_quizzes(saved), {"saved"})

\* The handler of Submit JSON (app.py:253-278) with the except clauses
\* dropped in favour of a default document.
SubmitJsonUnguarded(st, qz, quiz_json, f) ==
    LET data == json_loads(quiz_json)
        title == Or(f.quiz_title, Or(data.quiz_title, QuizN(Cardinality(DOMAIN qz) + 1)))
    IN save_quiz(st, title, data)

\* The handler of Submit JSON (app.py:253-278) for the text quiz_json and the
\* values f of the form's other fields, on the store st and the session's
\* collection qz.  A facet of the form is written when it is not empty.
SubmitJson(st, qz, quiz_json, f) ==
    IF strip(quiz_json) = EmptyText
    THEN Outcome(st, qz, {"Please paste some JSON."})
    ELSE IF ~Parses(quiz_json)
    THEN Outcome(st, qz, {"Invalid JSON format."})
    ELSE
    LET data == json_loads(quiz_json)
        title == Or(f.quiz_title, Or(data.quiz_title, QuizN(Cardinality(DOMAIN qz) + 1)))
        filled ==
            [data EXCEPT
               !.department = IF f.final_dept # "" /\ f.final_dept # "Uncategorized"
                              THEN f.final_dept ELSE @,
               !.level = Or(f.level, @),
               !.semester = Or(f.semester, @),
               !.course = Or(f.course, @),
               !.week = Or(f.week, @),
               !.quiz_category = Or(f.quiz_category, @)]
    IN save_quiz(st, title, filled)

\* The values of the add form's fields in the model: the title and the
\* facets the admin typed.
AddFields ==
    { [quiz_title |-> "", final_dept |-> "Uncategorized", level |-> "",
       semester |-> "", course |-> "", week |-> "", quiz_category |-> ""],
      [quiz_title |-> "C", final_dept |-> "Bio", level |-> "", semester |-> "",
       course |-> "", week |-> "Week 2", quiz_category |-> ""] }

\* The documents of the course CSC 101 the admin's JSON texts hold: one
\* names its title and its facets, the other only its course.
JsonObjects ==
    { FacetDoc("C", <<Q2>>, "Bio", "", "100 Level", "First Semester", "CSC 101", "", ""),
      FacetDoc("", <<Q2>>, "", "", "100 Level", "First Semester", "CSC 101", "", "") }

\* The texts the admin submits.
JsonTexts == {EmptyText, BlankText, BrokenText} \cup {json_dumps(d) : d \in JsonObjects}

\* The most documents the session's collection holds when the admin adds
\* one under a title of its own.
MaxQuizzes == 3

\* The rest of the script is skipped (st.rerun()): the attempt stays.
Skipped == Store(Attempt)

\* The admin clicked Submit JSON in the add form (app.py:253-278).  The form
\* is rendered below the filters and the quiz list (app.py:810-816), and the
\* script goes on to the main content with the collection save_quiz left.
SubmitJsonRun ==
    /\ SidebarRerun
    /\ \E quiz_json \in JsonTexts, f \in AddFields :
          LET out == SubmitJson(store, quizzes, quiz_json, f) IN
          /\ Cardinality(DOMAIN out.quizzes) <= MaxQuizzes
          /\ store' = out.store
          /\ quizzes' = out.quizzes
          /\ report' = out.report
          /\ MainContent(selected_departments, out.quizzes, NoButton, NoAns, "No timer")
    /\ UNCHANGED << selected_quiz, now, edit_vars >>

\* The admin clicked the delete button of quiz real_title in the list
\* (app.py:804-808): delete_quiz (app.py:91-104), then st.rerun().
DeleteQuizRun ==
    /\ SidebarRerun
    /\ \E real_title \in Clickable :
          IF deleted_count(store, real_title) = 1
          THEN /\ store' = DeleteOne(store, real_title)
               /\ selected_quiz' = IF selected_quiz = real_title THEN None
                                   ELSE selected_quiz
               /\ quizzes' = load_quizzes(store')
               /\ report' = {"deleted"}
          ELSE /\ report' = {"not found"}
               /\ UNCHANGED << store, quizzes, selected_quiz >>
    /\ Skipped
    /\ UNCHANGED << now, edit_vars >>

\* The admin clicked the edit button of quiz real_title in the list
\* (app.py:798-803).
EditQuizRun ==
    /\ SidebarRerun
    /\ \E real_title \in Clickable :
          /\ edit_quiz_title' = real_title
          /\ edit_quiz_data' = quizzes[real_title]
    /\ Skipped
    /\ Quiet
    /\ UNCHANGED << store, quizzes, selected_quiz, now >>

\* The values the edit form's widgets hold when it is opened on the
\* document data of the quiz title (app.py:303-343), for the session's
\* collection qz.
EditDefaults(qz, title, data) ==
    LET all_depts == sorted(Set(get_all_departments(qz)) \cup {"Uncategorized"})
        current_dept == DeptForList(data)
    IN [edited_title |-> Or(data.quiz_title, title),
        final_dept |-> IF Contains(all_depts, current_dept) THEN current_dept
                       ELSE all_depts[1],
        level |-> data.level,
        semester |-> IF data.semester \in {"", "First Semester", "Second Semester"}
                     THEN data.semester ELSE "",
        course |-> data.course,
        week |-> data.week,
        quiz_cat |-> data.quiz_category,
        edited_json |-> json_dumps(data)]

\* What the admin leaves in the edit form before saving: the form as it
\* opened, or with one of its widgets changed.
EditInputs(e) ==
    {e, [e EXCEPT !.week = ""], [e EXCEPT !.final_dept = "Uncategorized"],
        [e EXCEPT !.edited_title = "C"],
        [e EXCEPT !.edited_json = EmptyText], [e EXCEPT !.edited_json = BrokenText]}

\* The handler of Save Changes (app.py:347-381) for the widget values e of
\* the form opened on the quiz title.  An optional key is written when its
\* widget holds a value and popped otherwise.
SaveChanges(st, qz, title, e) ==
    IF ~Parses(e.edited_json)
    THEN Outcome(st, qz, {"Invalid JSON format - please fix the syntax."})
    ELSE
    LET new_title == Or(e.edited_title, title)
        new_data ==
            [json_loads(e.edited_json) EXCEPT
               !.quiz_title = new_title,
               !.department = IF e.final_dept # "" /\ e.final_dept # "Uncategorized"
                              THEN e.final_dept ELSE "",
               !.level = e.level,
               !.semester = e.semester,
               !.course = e.course,
               !.week = e.week,
               !.quiz_category = e.quiz_cat]
    IN save_quiz(st, new_title, new_data)

\* take_quiz_section ends in st.rerun() while the timer runs (app.py:547,
\* 640-642): nothing below the main content is rendered then.
TimerRunning ==
    /\ QuizShown
    /\ quiz_start_time # NoTime
    /\ ~Truthy(show_answers)

\* The admin clicked Save Changes in the edit form (app.py:831-388).  The
\* form is rendered below the main content, so it is reached only by a run
\* whose main content ended without an exception.
SaveChangesRun ==
    /\ edit_quiz_title # None
    /\ ~TimerRunning
    /\ SidebarRerun
    /\ MainContent(selected_departments, quizzes, NoButton, NoAns, "No timer")
    /\ IF fault'
       THEN UNCHANGED << store, quizzes, admin_vars >>
       ELSE \E e \in EditInputs(EditDefaults(quizzes, edit_quiz_title, edit_quiz_data)) :
               LET out == SaveChanges(store, quizzes, edit_quiz_title, e) IN
               /\ Cardinality(DOMAIN out.quizzes) <= MaxQuizzes
               /\ store' = out.store
               /\ quizzes' = out.quizzes
               /\ report' = out.report
               /\ IF Parses(e.edited_json)
                  THEN edit_quiz_title' = None /\ edit_quiz_data' = None
                  ELSE UNCHANGED edit_vars
    /\ UNCHANGED << selected_quiz, now >>

\* The admin clicked Cancel / Close editor (app.py:390-394).
CancelEditRun ==
    /\ edit_quiz_title # None
    /\ ~TimerRunning
    /\ SidebarRerun
    /\ MainContent(selected_departments, quizzes, NoButton, NoAns, "No timer")
    /\ IF fault'
       THEN UNCHANGED edit_vars
       ELSE edit_quiz_title' = None /\ edit_quiz_data' = None
    /\ Quiet
    /\ UNCHANGED << store, quizzes, selected_quiz, now >>

\* The values the widgets of the organize form hold for the document quiz
\* when the expander is opened (app.py:425-449).
OrganizeDefaults(qz, quiz) ==
    [new_level |-> IF Contains(<<"">> \o get_all_levels(qz), quiz.level)
                   THEN quiz.level ELSE "",
     new_sem |-> IF quiz.semester \in {"", "First Semester", "Second Semester"}
                 THEN quiz.semester ELSE "",
     new_course |-> quiz.course,
     new_week |-> quiz.week,
     new_cat |-> quiz.quiz_category]

\* What the admin leaves in the organize form before saving: the form as it
\* opened, or with one or two of its widgets changed.
OrganizeInputs(f) ==
    {f, [f EXCEPT !.new_week = ""],
        [f EXCEPT !.new_week = "", !.new_cat = "Past Questions"]}

\* The handler of Save assignment (app.py:451-475) for the document quiz of
\* the session's collection: a facet is written when its widget holds a
\* value other than the document's.
SaveAssignment(st, qz, title, f) ==
    LET quiz == qz[title]
        New(value, old) == IF value # "" /\ value # old THEN value ELSE old
        updated ==
            [quiz EXCEPT !.level = New(f.new_level, @),
                         !.semester = New(f.new_sem, @),
                         !.course = New(f.new_course, @),
                         !.week = New(f.new_week, @),
                         !.quiz_category = New(f.new_cat, @)]
        changed == updated # quiz
    IN IF changed THEN save_quiz(st, title, updated)
       ELSE Outcome(st, qz, {"No changes detected."})

\* The admin clicked Save assignment for a quiz of the session's collection
\* (app.py:409-475).  After a save the script is rerun; otherwise it goes on
\* to the main content.
SaveAssignmentRun ==
    /\ SidebarRerun
    /\ \E title \in DOMAIN quizzes :
          \E f \in OrganizeInputs(OrganizeDefaults(quizzes, quizzes[title])) :
             LET out == SaveAssignment(store, quizzes, title, f) IN
             /\ store' = out.store
             /\ quizzes' = out.quizzes
             /\ report' = out.report
             /\ IF "saved" \in out.report THEN Skipped
                ELSE MainContent(selected_departments, quizzes, NoButton, NoAns,
                                 "No timer")
    /\ UNCHANGED << selected_quiz, now, edit_vars >>

\* Another session of the app saved a document to the store, or deleted
\* one: the store is shared, and this session's state stays as it is.
OtherDocs ==
    { FacetDoc("A", <<Q2>>, "Bio", "", "100 Level", "First Semester", "CSC 101",
               "Week 2", "") }

OtherSessionSaves ==
    /\ \E d \in OtherDocs : store' = ReplaceOne(store, d.quiz_title, d)
    /\ UNCHANGED << quizzes, selected_quiz, attempt_vars, now, fault,
                    chosen_display, sidebar_vars, admin_vars >>

OtherSessionDeletes ==
    /\ \E title \in {store[k].quiz_title : k \in DOMAIN store} :
          store' = DeleteOne(store, title)
    /\ UNCHANGED << quizzes, selected_quiz, attempt_vars, now, fault,
                    chosen_display, sidebar_vars, admin_vars >>

\* The store the admin works on: two quizzes of the course CSC 101.
AdminCatalog ==
    [t \in {"A", "B"} |->
        CASE t = "A" -> FacetDoc("A", <<Q2>>, "Bio", "", "100 Level", "First Semester",
                                 "CSC 101", "Week 1", "Quiz 1")
          [] t = "B" -> FacetDoc("B", <<Q2>>, "Bio", "", "100 Level", "First Semester",
                                 "CSC 101", "", "")]

\* The session of an admin who has found the quizzes of the course.
InitAdmin ==
    /\ store = AdminCatalog
    /\ quizzes = load_quizzes(store)
    /\ selected_quiz = None
    /\ user_answers = EmptyDict
    /\ show_answers = "False"
    /\ score = NoScore
    /\ quiz_start_time = NoTime
    /\ time_limit_minutes = NoTime
    /\ timer_expired = "False"
    /\ reveal_correct_answers = "False"
    /\ shuffled_questions = NoShuffle
    /\ option_shuffles = EmptyDict
    /\ now = 0
    /\ fault = FALSE
    /\ chosen_display = EmptyDict
    /\ NoEdit
    /\ SidebarIs(CourseFilters)

\* The admin adds and deletes quizzes and takes them, beside the other
\* sessions.
NextAdmin ==
    \/ SelectQuizRun
    \/ TickRun
    \/ SubmitJsonRun
    \/ DeleteQuizRun
    \/ OtherSessionSaves
    \/ OtherSessionDeletes

SpecAdmin == InitAdmin /\ [][NextAdmin]_vars

\* The admin adds, edits and organizes the quizzes of the course.
NextEdit ==
    \/ EditQuizRun
    \/ SaveChangesRun
    \/ CancelEditRun
    \/ SaveAssignmentRun
    \/ SubmitJsonRun

SpecEdit == InitAdmin /\ [][NextEdit]_vars

\* The documents of the store have one title each.
TypeStore == \A k \in DOMAIN store : store[k].quiz_title # ""

-----------------------------------------------------------------------------
(* The store under the admin's saves and deletes *)

\* The titles of the documents of the store st.
TitlesOf(st) == {st[k].quiz_title : k \in DOMAIN st}

\* No two documents of the store st have the same title.
TitlesUnique(st) ==
    \A k1, k2 \in DOMAIN st : st[k1].quiz_title = st[k2].quiz_title => k1 = k2

\* The collection qz holds the titled documents of the store st, by title.
LoadedFrom(qz, st) ==
    /\ DOMAIN qz = TitlesOf(st) \ {""}
    /\ \A t \in DOMAIN qz : \E k \in DOMAIN st : st[k] = qz[t]
    /\ \A t \in DOMAIN qz : qz[t].quiz_title = t

\* The titles and the documents save_quiz is called with in the model.
SaveTitles == {"A", "C", QuizN(1)}
SaveDocs == JsonObjects \cup {AdminCatalog[t] : t \in DOMAIN AdminCatalog}

\* out is what the claim expects of save_quiz(title, data) on the store st.
Upserted(st, out, title, data) ==
    /\ Cardinality(Matching(out.store, title)) = 1
    /\ \A k \in Matching(out.store, title) :
          out.store[k] = [data EXCEPT !.quiz_title = title]
    /\ \A k \in DOMAIN st :
          st[k].quiz_title # title => k \in DOMAIN out.store /\ out.store[k] = st[k]
    /\ \A k \in DOMAIN out.store :
          out.store[k].quiz_title # title => k \in DOMAIN st
    /\ LoadedFrom(out.quizzes, out.store)

\* C21: after save_quiz(title, data) the store holds exactly one document
\* with that title, which is data with quiz_title set to title, every
\* document with another title is as it was, and the saving session's
\* collection is the store's titled documents, by title; and the titles of
\* the store stay unique under the saves and deletes of this session and
\* of the others.
C21_UpsertByTitle ==
    /\ [](/\ TitlesUnique(store)
          /\ \A title \in SaveTitles, data \in SaveDocs :
                Upserted(store, save_quiz(store, title, data), title, data))
    /\ [][quizzes' # quizzes => LoadedFrom(quizzes', store')]_vars

\* The admin has saved a document under a title the store already had, after
\* another session saved and deleted documents there.
C21_Witness ==
    /\ "saved" \in report
    /\ "C" \in DOMAIN quizzes
    /\ quizzes["C"].week = "Week 2"
    /\ "A" \notin DOMAIN quizzes
    /\ "B" \in DOMAIN quizzes

\* The documents a step removes from the store.
Removed == DOMAIN store \ DOMAIN store'

\* C22: a run of the delete button removes at most one document and leaves
\* every other document as it was; when it removes none (the title is not
\* in the store), the store, the session's collection and selected_quiz
\* stay as they were; when it removes the selected quiz, selected_quiz
\* becomes None and the title is no longer in the session's collection.
C22_DeleteByTitle ==
    [][DeleteQuizRun =>
          /\ DOMAIN store' \subseteq DOMAIN store
          /\ Cardinality(Removed) <= 1
          /\ \A k \in DOMAIN store' : store'[k] = store[k]
          /\ Removed = {} => /\ quizzes' = quizzes
                             /\ selected_quiz' = selected_quiz
          /\ \A k \in Removed :
                store[k].quiz_title = selected_quiz
                   => /\ selected_quiz' = None
                      /\ selected_quiz \notin DOMAIN quizzes']_vars

\* The admin clicked the delete button of the selected quiz, which another
\* session had deleted before.
C22_Witness ==
    /\ report = {"not found"}
    /\ selected_quiz \in DOMAIN quizzes
    /\ selected_quiz \notin TitlesOf(store)
    /\ quizzes # load_quizzes(store)

-----------------------------------------------------------------------------
(* The forms on malformed JSON *)

\* The texts that are empty or are not JSON.
Malformed == {t \in JsonTexts : ~Parses(t)}

\* The messages of the forms for such a text (app.py:255, 276, 386).
ParseErrors == {"Please paste some JSON.", "Invalid JSON format.",
                "Invalid JSON format - please fix the syntax."}

\* out reports a parse error and leaves the store st and the collection qz.
Rejected(out, st, qz) ==
    /\ out.store = st
    /\ out.quizzes = qz
    /\ out.report # {}
    /\ out.report \subseteq ParseErrors

\* C23: for a text that is empty or is not JSON, the add form and the edit
\* form report a parse error and leave the store and the session's
\* collection as they are; a run that reports a parse error has saved
\* nothing.
C23_MalformedJson ==
    /\ [](/\ \A t \in Malformed, f \in AddFields :
                Rejected(SubmitJson(store, quizzes, t, f), store, quizzes)
          /\ edit_quiz_title # None =>
                \A t \in Malformed :
                \A e \in EditInputs(EditDefaults(quizzes, edit_quiz_title, edit_quiz_data)) :
                   Rejected(SaveChanges(store, quizzes, edit_quiz_title,
                                        [e EXCEPT !.edited_json = t]),
                            store, quizzes))
    /\ [][report' \cap ParseErrors # {} => UNCHANGED << store, quizzes >>]_vars

\* The edit form, opened on a quiz the admin had added, has reported a parse
\* error.
C23_Witness ==
    /\ report = {"Invalid JSON format - please fix the syntax."}
    /\ edit_quiz_title = "C"
    /\ "C" \in TitlesOf(store)

-----------------------------------------------------------------------------
(* Optional keys under the edits *)

\* The document of the given title in the store an operation left.
StoredDoc(out, title) == out.store[CHOOSE k \in Matching(out.store, title) : TRUE]

\* C24: when the edit form or the organize form is saved with the widget of
\* an optional key left empty, the stored document has no such key (in the
\* model: holds "" for it), not the value it had before.
C24_ClearedFieldsRemoved ==
    /\ edit_quiz_title # None =>
          \A e \in EditInputs(EditDefaults(quizzes, edit_quiz_title, edit_quiz_data)) :
             LET out == SaveChanges(store, quizzes, edit_quiz_title, e)
                 doc == StoredDoc(out, Or(e.edited_title, edit_quiz_title))
             IN "saved" \in out.report =>
                   /\ e.level = "" => doc.level = ""
                   /\ e.semester = "" => doc.semester = ""
                   /\ e.course = "" => doc.course = ""
                   /\ e.week = "" => doc.week = ""
                   /\ e.quiz_cat = "" => doc.quiz_category = ""
    /\ \A title \in DOMAIN quizzes :
       \A f \in OrganizeInputs(OrganizeDefaults(quizzes, quizzes[title])) :
          LET out == SaveAssignment(store, quizzes, title, f)
              doc == StoredDoc(out, title)
          IN "saved" \in out.report =>
                /\ f.new_level = "" => doc.level = ""
                /\ f.new_sem = "" => doc.semester = ""
                /\ f.new_course = "" => doc.course = ""
                /\ f.new_week = "" => doc.week = ""
                /\ f.new_cat = "" => doc.quiz_category = ""

-----------------------------------------------------------------------------
(* Responses under later responses *)

\* The option string at index k of the radio at position i (app.py:565-566),
\* for the questions presented, the canonical questions orig and the option
\* permutations shuffles.
OptionAt(presented, orig, shuffles, i, k) ==
    LET q == At(presented, i)
        shuffle_map == DictGet(shuffles, Index(orig, q), Range0(Len(q.options)))
    IN At(OptsShuffled(q.options, shuffle_map), k)

\* The positions at which the step records a response.
RecordedAt ==
    {i \in DOMAIN user_answers' :
        i \notin DOMAIN user_answers \/ user_answers'[i] # user_answers[i]}

\* The run that records the response is the run of the Submit button too
\* (the user clicked it right after selecting the option).
SubmittedToo == Scores /\ Truthy(show_answers')

\* C25: a run that records a response records it at one position, as the
\* index of the option the user chose there, and leaves the shuffle and the
\* timer fields as they were, and the score too unless it is the run of the
\* Submit button; and a position that holds a response holds one until the
\* attempt is reset.
C25_LastWriteWins ==
    [][/\ RecordedAt # {} =>
             /\ Cardinality(RecordedAt) = 1
             /\ \A i \in RecordedAt :
                   /\ i \in DOMAIN chosen_display'
                   /\ OptionAt(PresentedNow', original_questions(quizzes)', option_shuffles',
                               i, user_answers'[i]) = chosen_display'[i].option
             /\ UNCHANGED << shuffled_questions, option_shuffles,
                             quiz_start_time, time_limit_minutes, timer_expired >>
             /\ score' = score \/ SubmittedToo
       /\ DOMAIN user_answers \subseteq DOMAIN user_answers' \/ AttemptReset]_vars

\* C25_LastWriteWins for the runs of an attempt that is InProgress.
LastWriteWinsInProgress ==
    [][Phase = "InProgress" =>
          /\ RecordedAt # {} =>
                /\ Cardinality(RecordedAt) = 1
                /\ \A i \in RecordedAt :
                      /\ i \in DOMAIN chosen_display'
                      /\ OptionAt(PresentedNow', original_questions(quizzes)', option_shuffles',
                               i, user_answers'[i]) = chosen_display'[i].option
                /\ UNCHANGED << shuffled_questions, option_shuffles,
                                quiz_start_time, time_limit_minutes, timer_expired >>
                /\ score' = score \/ SubmittedToo
          /\ DOMAIN user_answers \subseteq DOMAIN user_answers' \/ AttemptReset]_vars

-----------------------------------------------------------------------------
(* The selected quiz revised during an attempt *)

\* The question lists the admin gives the selected quiz.
RevisedQuestions == { <<Q1>>, <<Q2, Q1>> }

\* The add form with only the JSON text filled in.
BlankFields ==
    [quiz_title |-> "", final_dept |-> "Uncategorized", level |-> "", semester |-> "",
     course |-> "", week |-> "", quiz_category |-> ""]

\* The admin, in the session of the attempt, submitted in the add form the
\* document of the selected quiz with other questions (app.py:253-274).
ReviseQuizRun ==
    /\ selected_quiz \in DOMAIN quizzes
    /\ SidebarRerun
    /\ \E qs \in RevisedQuestions :
          LET revised == [quizzes[selected_quiz] EXCEPT !.questions = qs]
              out == SubmitJson(store, quizzes, json_dumps(revised), BlankFields)
          IN /\ store' = out.store
             /\ quizzes' = out.quizzes
             /\ report' = out.report
             /\ MainContent(selected_departments, out.quizzes, NoButton, NoAns,
                            "No timer")
    /\ UNCHANGED << selected_quiz, now, edit_vars >>

NextRevise ==
    \/ StartRun
    \/ TickRun
    \/ ReviseQuizRun

\* An attempt at a quiz that the admin revises meanwhile.
SpecRevise == InitAttempt /\ [][NextRevise]_vars

\* How often x occurs in seq.
Count(seq, x) == Cardinality({j \in 1..Len(seq) : seq[j] = x})

\* The shuffle sh is one of the questions orig: a rearrangement of them,
\* with a permutation of the option indices for each canonical question
\* that has options, and for no other.
WellFormed(sh, orig) ==
    /\ Len(sh.shuffled_questions) = Len(orig)
    /\ \A j \in 1..Len(orig) :
          Count(sh.shuffled_questions, orig[j]) = Count(orig, orig[j])
    /\ DOMAIN sh.option_shuffles
          = {i \in 0..(Len(orig) - 1) : At(orig, i).options # <<>>}
    /\ \A i \in DOMAIN sh.option_shuffles :
          sh.option_shuffles[i] \in Perms(Len(At(orig, i).options))

\* C26: whenever the session holds a shuffle and the selected quiz has
\* questions, the shuffle is well formed for the questions of its document.
C26_ShuffleWellFormed ==
    (/\ shuffled_questions # NoShuffle
     /\ selected_quiz \in DOMAIN quizzes
     /\ original_questions(quizzes) # <<>>)
       => WellFormed([shuffled_questions |-> shuffled_questions,
                      option_shuffles |-> option_shuffles],
                     original_questions(quizzes))

\* C27: while the attempt is InProgress or Ended, every question presented
\* is one of the canonical questions of the selected quiz's document, and
\* no run of the attempt ends in an exception.
C27_CanonicalStable ==
    (/\ Phase \in {"InProgress", "Ended"}
     /\ selected_quiz \in DOMAIN quizzes)
       => /\ \A j \in 1..Len(PresentedNow) :
                Contains(original_questions(quizzes), PresentedNow[j])
          /\ ~fault

-----------------------------------------------------------------------------
(* The selected quiz beside the other sessions *)

\* C28: the session's selected_quiz is None or a title of the session's
\* loaded collection, whatever the other sessions save and delete, so the
\* document lookup of take_quiz_section does not fail.
C28_SelectedIsLoaded ==
    /\ selected_quiz = None \/ selected_quiz \in DOMAIN quizzes
    /\ ~fault
====
